---- MODULE Spec2Model ----
(***************************************************************************)
(* Model of the wisdomai-backend memory pipeline: the per-user memory      *)
(* store (utils/memory.js), the chat log store (routes/chat.js) and the    *)
(* two streaming handlers (routes/chat.js GET /stream, index.js GET        *)
(* /chat-stream).                                                          *)
(*                                                                         *)
(* Text is modelled as a sequence of symbols, so that concatenation,       *)
(* joining and trimming are computed and string equality is sequence       *)
(* equality.  Time is counted in whole days.                               *)
(***************************************************************************)
EXTENDS Integers, Sequences, FiniteSets, TLC

VARIABLES
    memories,             \* UserMemory collection: user id -> document
    chats,                \* ChatHistory collection: chat id -> document
    nextChatId,           \* the next fresh _id of the ChatHistory collection
    now,                  \* the clock, in days
    lastCall,             \* what the updateUserMemory call of the last step did (observer)
    prefLog,              \* preference maps of the successful extractions (observer)
    reqs,                 \* in-flight stream requests: slot -> handler state
    conversationHistory,  \* routes/chat.js: the process-wide message array
    turns,                \* number of stream requests accepted so far
    users,                \* User collection: user id -> dailyQueryCount
    completed,            \* stream turns of each user completed today (observer)
    summaryDay,           \* day the stored summary of each user was generated (observer)
    knowledgeBase,        \* generateEmbeddings.js: the loaded text files
    knowledgeEmbeddings,  \* generateEmbeddings.js: the loaded embeddings
    finds,                \* in-flight findRelevantFiles calls: slot -> call state
    loads                 \* number of loads of the knowledge from disk so far

vars == <<memories, chats, nextChatId, now, lastCall, prefLog,
          reqs, conversationHistory, turns, users, completed,
          summaryDay, knowledgeBase, knowledgeEmbeddings, finds, loads>>

dbVars == <<memories, chats, nextChatId>>
streamVars == <<reqs, conversationHistory, turns, users, completed>>
kbVars == <<knowledgeBase, knowledgeEmbeddings, finds, loads>>

-----------------------------------------------------------------------------
(* Bounds of the model *)

MaxChats == 5
MaxLiveChats == 2
MaxMsgs == 2
MaxFacts == 3
MaxLog == 2
MaxNow == 8
MaxChunks == 2
MaxTurns == 2
MaxLoads == 2
MaxCorpus == 4

(* Program constants *)

MAX_HISTORY_FOR_PROMPT == 10
MAX_SUMMARY_AGE_DAYS == 7
SummaryEvery == 5
ExtractEvery == 3

-----------------------------------------------------------------------------
(* Input domains *)

Users == {"u1", "u2"}
None == "none"
\* a request without chatId
NoChatId == 0

EmptyText == << >>
SummaryTexts == {<<"s1">>, <<"s2">>}
FactStrings == {<<"a">>, <<" ", "a">>, <<"b">>}
PrefKeys == {"k1", "k2"}
PrefVals == {"v1", "v2"}

UserMsg == [role |-> "user", content |-> <<"hi">>, figure |-> None]
AsstMsg == [role |-> "assistant", content |-> <<"ok">>, figure |-> "Buddha"]

EmptyMap == [k \in {} |-> "v1"]
PrefMaps == UNION {[D -> PrefVals] : D \in SUBSET PrefKeys}

SeqsUpTo(S, n) == UNION {[1..k -> S] : k \in 0..n}

-----------------------------------------------------------------------------
(* Text helpers *)

RECURSIVE Join(_, _)
Join(texts, sep) ==
    IF texts = << >> THEN EmptyText
    ELSE IF Len(texts) = 1 THEN Head(texts)
    ELSE Head(texts) \o sep \o Join(Tail(texts), sep)

RECURSIVE TrimLeft(_)
TrimLeft(s) ==
    IF s # << >> /\ Head(s) = " " THEN TrimLeft(Tail(s)) ELSE s

RECURSIVE TrimRight(_)
TrimRight(s) ==
    IF s # << >> /\ s[Len(s)] = " " THEN TrimRight(SubSeq(s, 1, Len(s) - 1)) ELSE s

Trim(s) == TrimRight(TrimLeft(s))

Range(f) == {f[i] : i \in DOMAIN f}

\* Array.prototype.slice(-n)
SliceLast(s, n) ==
    IF Len(s) <= n THEN s ELSE SubSeq(s, Len(s) - n + 1, Len(s))

-----------------------------------------------------------------------------
(* Chat Log Store: models/ChatHistory.js and the CRUD routes of routes/chat.js *)

Words(content) == SelectSeq(content, LAMBDA w : w # " ")

\* generateTitle: the first six words, with an ellipsis when there are more
generateTitle(content) ==
    LET words == Words(content)
        first == SubSeq(words, 1, IF Len(words) < 6 THEN Len(words) ELSE 6)
    IN  Join([i \in 1..Len(first) |-> <<first[i]>>], <<" ">>)
          \o (IF Len(words) > 6 THEN <<"...">> ELSE EmptyText)

FirstUserIndex(messages) ==
    IF \E i \in 1..Len(messages) : messages[i].role = "user"
    THEN CHOOSE i \in 1..Len(messages) :
            /\ messages[i].role = "user"
            /\ \A j \in 1..(i - 1) : messages[j].role # "user"
    ELSE 0

\* chatHistorySchema.pre('save')
PreSave(chat, isNew) ==
    IF (isNew \/ chat.title = <<"New Chat">>) /\ FirstUserIndex(chat.messages) # 0
    THEN [chat EXCEPT !.title = generateTitle(chat.messages[FirstUserIndex(chat.messages)].content)]
    ELSE chat

\* ChatHistory.findOne({ _id: chatId, user: userId }) finds a document
FindChat(chs, chatId, userId) ==
    chatId \in DOMAIN chs /\ chs[chatId].user = userId

\* ChatHistory.countDocuments({ user: userId })
CountDocuments(chs, userId) ==
    Cardinality({c \in DOMAIN chs : chs[c].user = userId})

\* POST /message without chatId: create a chat holding the one message
NewChat(u, m) ==
    /\ chats' = [c \in DOMAIN chats \cup {nextChatId} |->
                    IF c = nextChatId
                    THEN PreSave([user |-> u, title |-> <<"New Chat">>,
                                  messages |-> <<m>>, lastMessage |-> m.content], TRUE)
                    ELSE chats[c]]
    /\ nextChatId' = nextChatId + 1

\* variant: the message is put in front of the stored ones
AppendMessage_Prepend(u, c, m) ==
    /\ chats' = IF c \in DOMAIN chats /\ chats[c].user = u
                THEN [chats EXCEPT ![c] =
                        PreSave([@ EXCEPT !.messages = <<m>> \o @,
                                          !.lastMessage = m.content], FALSE)]
                ELSE chats
    /\ UNCHANGED nextChatId

\* the collection after POST /message with chatId
SavedChats(chs, u, c, m) ==
    IF c \in DOMAIN chs /\ chs[c].user = u
    THEN [chs EXCEPT ![c] =
            PreSave([@ EXCEPT !.messages = Append(@, m),
                              !.lastMessage = m.content], FALSE)]
    ELSE chs

\* the collection after POST /clear
ClearedChats(chs, u, c) ==
    IF FindChat(chs, c, u)
    THEN [chs EXCEPT ![c] =
            PreSave([@ EXCEPT !.messages = << >>,
                              !.lastMessage = EmptyText], FALSE)]
    ELSE chs

\* the collection after DELETE /:chatId
DeletedChats(chs, u, c) ==
    IF c \in DOMAIN chs /\ chs[c].user = u
    THEN [d \in DOMAIN chs \ {c} |-> chs[d]]
    ELSE chs

\* the responses of the chat routes that take a chat id
Response(status, key, text) == [status |-> status, body |-> <<key, text>>]

\* variant: a chat of another user is answered with 403
GetChatResponse_Forbidden(chs, u, c) ==
    IF FindChat(chs, c, u) THEN Response(200, "chat", ToString(c))
    ELSE IF c \in DOMAIN chs THEN Response(403, "error", "Forbidden")
    ELSE Response(404, "error", "Chat not found")

\* GET /:chatId
GetChatResponse(chs, u, c) ==
    IF c \in DOMAIN chs /\ chs[c].user = u
    THEN Response(200, "chat", ToString(c))
    ELSE Response(404, "error", "Chat not found")

\* POST /message with chatId
SaveMessageResponse(chs, u, c, m) ==
    IF c \in DOMAIN chs /\ chs[c].user = u
    THEN Response(200, "chat", ToString(c))
    ELSE Response(404, "error", "Chat not found")

\* POST /clear
ClearResponse(chs, u, c) ==
    IF FindChat(chs, c, u)
    THEN Response(200, "message", "Chat cleared successfully")
    ELSE Response(404, "message", "Chat not found")

\* DELETE /:chatId
DeleteResponse(chs, u, c) ==
    IF c \in DOMAIN chs /\ chs[c].user = u
    THEN Response(200, "message", "Chat deleted successfully")
    ELSE Response(404, "error", "Chat not found")

\* POST /message with chatId: append to a chat of the caller, else 404
AppendMessage(u, c, m) ==
    /\ chats' = SavedChats(chats, u, c, m)
    /\ UNCHANGED nextChatId

\* POST /clear: empty the messages of a chat of the caller, keep the chat
ClearChat(u, c) ==
    /\ chats' = ClearedChats(chats, u, c)
    /\ UNCHANGED nextChatId

\* DELETE /:chatId: remove a chat of the caller
DeleteChat(u, c) ==
    /\ chats' = DeletedChats(chats, u, c)
    /\ UNCHANGED nextChatId

-----------------------------------------------------------------------------
(* Memory Store accessor: utils/memory.js getUserMemory *)

\* what getUserMemory uses when UserMemory.findOne finds nothing
EmptyMemory(t) ==
    [personalFacts |-> << >>, preferences |-> EmptyMap,
     conversationSummary |-> EmptyText, lastUpdated |-> t]

RenderMessage(msg) == <<msg.role, ": ">> \o msg.content

\* variant: the chat is looked up by its id alone
CurrentChatMessages_AnyOwner(chs, userId, chatId) ==
    IF chatId # NoChatId /\ chatId \in DOMAIN chs
    THEN SliceLast(chs[chatId].messages, MAX_HISTORY_FOR_PROMPT)
    ELSE << >>

\* step 2 of getUserMemory: the last MAX_HISTORY_FOR_PROMPT messages of the
\* chat, when the chat is found for this user
CurrentChatMessages(chs, userId, chatId) ==
    IF chatId # NoChatId /\ FindChat(chs, chatId, userId)
    THEN SliceLast(chs[chatId].messages, MAX_HISTORY_FOR_PROMPT)
    ELSE << >>

\* step 3 of getUserMemory: the messages as "role: content" lines
RenderHistory(messages) ==
    Join([i \in 1..Len(messages) |-> RenderMessage(messages[i])], <<"\n">>)

GeneralSummary(userMemory, hasRecord, t) ==
    IF /\ hasRecord
       /\ userMemory.conversationSummary # EmptyText
       /\ t - userMemory.lastUpdated <= MAX_SUMMARY_AGE_DAYS
    THEN userMemory.conversationSummary
    ELSE EmptyText

getUserMemory(mems, chs, userId, chatId, t) ==
    LET hasRecord == userId \in DOMAIN mems
        userMemory == IF hasRecord THEN mems[userId] ELSE EmptyMemory(t)
        generalSummary == GeneralSummary(userMemory, hasRecord, t)
        currentChatMessages == CurrentChatMessages(chs, userId, chatId)
        history0 == RenderHistory(currentChatMessages)
        history1 == IF generalSummary # EmptyText /\ history0 # generalSummary
                    THEN <<"General summary of past interactions:\n">> \o generalSummary
                           \o <<"\n\nCurrent conversation:\n">> \o history0
                    ELSE history0
        history2 == IF history1 = EmptyText /\ generalSummary # EmptyText
                    THEN <<"General summary of past interactions:\n">> \o generalSummary
                    ELSE history1
    IN  [personalFacts |-> userMemory.personalFacts,
         preferences |-> userMemory.preferences,
         relevantHistory |-> history2]

-----------------------------------------------------------------------------
(* Memory Maintainer: utils/memory.js updateUserMemory *)

\* Outcomes of the world during one updateUserMemory call.
\*   failAt : the persistence operation of updateUserMemory that rejects
\*   sumOut : the summary model call: its text, or a failure
\*   extOut : the extraction: model call failure, unparsable payload, a
\*            rejected lookup or save, or the parsed facts and preferences
FailPoints == {"none", "findOne", "countDocuments", "find", "save"}
SummaryOutcomes ==
    {[kind |-> "callFailed", text |-> EmptyText]}
      \cup {[kind |-> "ok", text |-> s] : s \in SummaryTexts}
ExtractFailures == {"callFailed", "parseError", "findFailed", "saveFailed"}
ExtractOutcome(kind, facts, prefs) ==
    [kind |-> kind, personalFacts |-> facts, preferences |-> prefs]

\* the worlds of one call: a persistence failure, or no such failure and
\* any outcome of the two model calls
Worlds(extractions) ==
    {[failAt |-> f, sumOut |-> [kind |-> "callFailed", text |-> EmptyText],
      extOut |-> ExtractOutcome("callFailed", << >>, EmptyMap)] :
        f \in FailPoints \ {"none"}}
      \cup {[failAt |-> "none", sumOut |-> so, extOut |-> eo] :
                so \in SummaryOutcomes, eo \in extractions}

\* generateConversationSummary: the model's text, '' when the call fails
generateConversationSummary(sumOut) ==
    IF sumOut.kind = "ok" THEN sumOut.text ELSE EmptyText

\* should the summary be regenerated at this conversation count
ShouldSummarize(chatCount) == chatCount % SummaryEvery = 0

\* should facts and preferences be extracted at this conversation count
ShouldExtractFacts(chatCount) == chatCount % ExtractEvery = 0

\* the facts of an extraction that are not among the existing contents
NewFacts(existing, extracted, t) ==
    LET existingFacts == {existing[i].content : i \in 1..Len(existing)}
        kept == SelectSeq(extracted, LAMBDA fact : fact \notin existingFacts)
    IN  [i \in 1..Len(kept) |->
            [content |-> kept[i], source |-> "observation", timestamp |-> t]]

\* variant: a key already set keeps its value
MergePreferences_FirstWins(old, new) ==
    [k \in DOMAIN old \cup DOMAIN new |-> IF k \in DOMAIN old THEN old[k] ELSE new[k]]

\* prefsMap.set(key, value) for every entry of the extraction
MergePreferences(old, new) ==
    [k \in DOMAIN old \cup DOMAIN new |-> IF k \in DOMAIN new THEN new[k] ELSE old[k]]

\* the extraction reaches memory.save() and the save succeeds: the payload
\* parsed ("ok"), or the reply held no bracketed structure ("noStructure"),
\* for which the code goes on with the empty object {}
ExtractionStored(mems, userId, extOut) ==
    extOut.kind \in {"ok", "noStructure"} /\ userId \in DOMAIN mems

\* extractFactsAndPreferences: every failure is caught inside; the lookup
\* after the model call finding no document is a TypeError, caught as well
extractFactsAndPreferences(mems, userId, extOut, t) ==
    IF ~ExtractionStored(mems, userId, extOut) THEN mems
    ELSE [mems EXCEPT ![userId] =
            [@ EXCEPT !.personalFacts = @ \o NewFacts(@, extOut.personalFacts, t),
                      !.preferences = MergePreferences(@, extOut.preferences),
                      !.lastUpdated = t]]

\* new UserMemory({ user: userId })
NewUserMemory(t) ==
    [personalFacts |-> << >>, preferences |-> EmptyMap,
     conversationSummary |-> EmptyText, lastUpdated |-> t]

\* variant: the save writes a fresh document in place of the stored one
SaveSummary_Overwrite(mems, userId, summary, t) ==
    [u \in DOMAIN mems \cup {userId} |->
        IF u = userId
        THEN [NewUserMemory(t) EXCEPT !.conversationSummary = summary]
        ELSE mems[u]]

\* the summary branch: memory.conversationSummary = summary; memory.save()
SaveSummary(mems, userId, summary, t) ==
    LET memory == IF userId \in DOMAIN mems THEN mems[userId] ELSE NewUserMemory(t)
    IN  [u \in DOMAIN mems \cup {userId} |->
            IF u = userId
            THEN [memory EXCEPT !.conversationSummary = summary, !.lastUpdated = t]
            ELSE mems[u]]

\* updateUserMemory as a whole: the collection afterwards, whether the call
\* threw, and which of the two maintenance routines it invoked
updateUserMemory(mems, chs, userId, failAt, sumOut, extOut, t) ==
    LET chatCount == CountDocuments(chs, userId)
        doSummary == ShouldSummarize(chatCount)
        doExtract == ShouldExtractFacts(chatCount)
        Result(m, threw, sumInv, extInv) ==
            [memories |-> m, threw |-> threw, chatCount |-> chatCount,
             summaryInvoked |-> sumInv, extractInvoked |-> extInv]
    IN  IF failAt \in {"findOne", "countDocuments"}
        THEN Result(mems, TRUE, FALSE, FALSE)
        ELSE IF doSummary /\ failAt = "find"
        THEN Result(mems, TRUE, TRUE, FALSE)
        ELSE IF doSummary /\ failAt = "save"
        THEN Result(mems, TRUE, TRUE, FALSE)
        ELSE LET afterSummary ==
                    IF doSummary
                    THEN SaveSummary(mems, userId, generateConversationSummary(sumOut), t)
                    ELSE mems
                 afterExtract ==
                    IF doExtract
                    THEN extractFactsAndPreferences(afterSummary, userId, extOut, t)
                    ELSE afterSummary
             IN  Result(afterExtract, FALSE, doSummary, doExtract)

-----------------------------------------------------------------------------
(* Knowledge Store: generateEmbeddings.js (knowledgeBase, knowledgeEmbeddings, *)
(* findRelevantFiles, reloadKnowledge) and utils.js cosineSimilarity.         *)
(* Embeddings are integer vectors.  A cosine similarity is kept exactly, as   *)
(* the pair num / sqrt(den) of the dot product and the product of the squared *)
(* magnitudes; vectors are non-zero, so den > 0.  Every load from disk parses *)
(* fresh objects: an item carries the number of the load that created it.     *)

TopK == 3
Vectors == {<<1, 0>>, <<0, 1>>, <<1, 1>>, <<-1, 0>>}
FileNames == <<"f1", "f2", "f3", "f4", "f5", "f6">>

RECURSIVE SumTo(_, _)
SumTo(f, n) == IF n = 0 THEN 0 ELSE f[n] + SumTo(f, n - 1)

\* vecA.reduce((sum, val, i) => sum + val * vecB[i], 0)
DotProduct(vecA, vecB) == SumTo([i \in 1..Len(vecA) |-> vecA[i] * vecB[i]], Len(vecA))

\* cosineSimilarity: dotProduct / (magnitudeA * magnitudeB)
cosineSimilarity(vecA, vecB) ==
    [num |-> DotProduct(vecA, vecB),
     den |-> DotProduct(vecA, vecA) * DotProduct(vecB, vecB)]

\* x < y for two similarities
SimLess(x, y) ==
    IF x.num < 0 /\ y.num >= 0 THEN TRUE
    ELSE IF x.num >= 0 /\ y.num < 0 THEN FALSE
    ELSE IF x.num >= 0
         THEN x.num * x.num * y.den < y.num * y.num * x.den
         ELSE x.num * x.num * y.den > y.num * y.num * x.den

\* one step of the stable sort with comparator b.similarity - a.similarity:
\* x goes behind every item that is not smaller
InsertBySimilarity(sorted, x) ==
    LET n == Cardinality({i \in 1..Len(sorted) :
                            ~SimLess(sorted[i].similarity, x.similarity)})
    IN  SubSeq(sorted, 1, n) \o <<x>> \o SubSeq(sorted, n + 1, Len(sorted))

RECURSIVE SortBySimilarity(_)
SortBySimilarity(items) ==
    IF items = << >> THEN << >>
    ELSE InsertBySimilarity(SortBySimilarity(SubSeq(items, 1, Len(items) - 1)),
                            items[Len(items)])

\* variant: the items are sliced without being sorted
RankFiles_Unsorted(embeddings, queryEmbedding) ==
    LET similarities ==
            [i \in 1..Len(embeddings) |->
                [content |-> embeddings[i].content,
                 embedding |-> embeddings[i].embedding,
                 load |-> embeddings[i].load,
                 similarity |-> cosineSimilarity(queryEmbedding, embeddings[i].embedding)]]
    IN  SubSeq(similarities, 1, IF Len(similarities) < TopK THEN Len(similarities) ELSE TopK)

\* the synchronous part of findRelevantFiles, after the query embedding arrived
RankFiles(embeddings, queryEmbedding) ==
    LET similarities ==
            [i \in 1..Len(embeddings) |->
                [content |-> embeddings[i].content,
                 embedding |-> embeddings[i].embedding,
                 load |-> embeddings[i].load,
                 similarity |-> cosineSimilarity(queryEmbedding, embeddings[i].embedding)]]
        sorted == SortBySimilarity(similarities)
    IN  SubSeq(sorted, 1, IF Len(sorted) < TopK THEN Len(sorted) ELSE TopK)

\* what a load finds on disk: the text directory and the embeddings file,
\* each readable or not
DirOutcome(ok, names) == [ok |-> ok, files |-> names]
FileOutcome(ok, vectors) == [ok |-> ok, vectors |-> vectors]

\* loadTextFiles(knowledgeDir), as load number n
LoadedFiles(dir, n) ==
    [i \in 1..Len(dir.files) |->
        [fileName |-> dir.files[i], content |-> <<dir.files[i]>>, load |-> n]]

\* JSON.parse(fs.readFileSync(embeddingsFilePath)), as load number n
LoadedEmbeddings(file, n) ==
    [i \in 1..Len(file.vectors) |->
        [content |-> <<FileNames[i]>>, embedding |-> file.vectors[i], load |-> n]]

\* started: the number of loads that had been made when the call began
NoFind == [pc |-> "idle", query |-> EmptyText, result |-> << >>, started |-> 0]
FindSlots == {"f1", "f2"}

\* the module's load at startup: each collection stays [] when its load fails
StartupLoad(dir, file) ==
    /\ knowledgeBase = IF dir.ok THEN LoadedFiles(dir, 0) ELSE << >>
    /\ knowledgeEmbeddings = IF file.ok THEN LoadedEmbeddings(file, 0) ELSE << >>
    /\ finds = [f \in FindSlots |-> NoFind]
    /\ loads = << >>

\* variant: the reloaded embeddings are added to the ones in memory
AfterReload_Merge(base, embeddings, dir, file, n) ==
    IF ~dir.ok
    THEN [knowledgeBase |-> base, knowledgeEmbeddings |-> embeddings, outcome |-> "failed"]
    ELSE IF ~file.ok
    THEN [knowledgeBase |-> LoadedFiles(dir, n), knowledgeEmbeddings |-> embeddings,
          outcome |-> "failed"]
    ELSE [knowledgeBase |-> LoadedFiles(dir, n),
          knowledgeEmbeddings |-> embeddings \o LoadedEmbeddings(file, n),
          outcome |-> "ok"]

\* reloadKnowledge as load number n: knowledgeBase is assigned as soon as
\* loadTextFiles returns, knowledgeEmbeddings once the file is read and
\* parsed; the first failure is rethrown
AfterReload(base, embeddings, dir, file, n) ==
    IF ~dir.ok
    THEN [knowledgeBase |-> base, knowledgeEmbeddings |-> embeddings, outcome |-> "failed"]
    ELSE IF ~file.ok
    THEN [knowledgeBase |-> LoadedFiles(dir, n), knowledgeEmbeddings |-> embeddings,
          outcome |-> "failed"]
    ELSE [knowledgeBase |-> LoadedFiles(dir, n),
          knowledgeEmbeddings |-> LoadedEmbeddings(file, n),
          outcome |-> "ok"]

\* let knowledgeBase = []; let knowledgeEmbeddings = []
InitKnowledge ==
    /\ knowledgeBase = << >>
    /\ knowledgeEmbeddings = << >>
    /\ finds = [f \in FindSlots |-> NoFind]
    /\ loads = << >>

-----------------------------------------------------------------------------
(* State machine: the database, the clock and the observers *)

NoCall ==
    [user |-> None, chatCount |-> 0, threw |-> FALSE,
     summaryInvoked |-> FALSE, extractInvoked |-> FALSE,
     summaryFailed |-> FALSE, extractStored |-> FALSE,
     hadRecord |-> FALSE, summaryBefore |-> EmptyText,
     extracted |-> << >>]

Reqs == {"r1", "r2"}

NoMemory == [personalFacts |-> << >>, preferences |-> EmptyMap, relevantHistory |-> EmptyText]

\* a stream request that has not been received yet
NoReq ==
    [pc |-> "idle", route |-> None, user |-> None, chatId |-> NoChatId,
     memory |-> NoMemory, received |-> << >>, fullReply |-> EmptyText,
     events |-> << >>, status |-> 0, headersSent |-> FALSE, ended |-> FALSE,
     errorBody |-> FALSE, modelFailed |-> FALSE, failedAt |-> None,
     maintained |-> FALSE, maintFailure |-> None, userCount |-> 0,
     chatMessages |-> << >>, prompt |-> << >>,
     wisdomFigure |-> None, systemMessage |-> EmptyText,
     disconnected |-> FALSE, memoryFound |-> FALSE]

InitDb ==
    /\ memories = [u \in {} |-> EmptyMemory(0)]
    /\ chats = [c \in {} |-> 0]
    /\ nextChatId = 1

\* every user has completed `count` stream turns today, all of them counted
InitCounts(count) ==
    /\ users = [u \in Users |-> count]
    /\ completed = [u \in Users |-> count]

\* everything but the knowledge store and the query counts
InitRest ==
    /\ InitDb
    /\ now = 0
    /\ lastCall = NoCall
    /\ prefLog = [u \in Users |-> << >>]
    /\ reqs = [r \in Reqs |-> NoReq]
    /\ conversationHistory = << >>
    /\ turns = 0
    /\ summaryDay = [u \in Users |-> 0]

\* everything but the knowledge store
InitApp == InitRest /\ InitCounts(0)

Init == InitApp /\ InitKnowledge

\* POST /message, new chat
SaveNewChat(u, m) ==
    /\ NewChat(u, m)
    /\ lastCall' = NoCall
    /\ UNCHANGED <<memories, now, prefLog, summaryDay, kbVars, streamVars>>

\* POST /message, existing chat
SaveMessage(u, c, m) ==
    /\ AppendMessage(u, c, m)
    /\ lastCall' = NoCall
    /\ UNCHANGED <<memories, now, prefLog, summaryDay, kbVars, streamVars>>

\* POST /clear
Clear(u, c) ==
    /\ ClearChat(u, c)
    /\ lastCall' = NoCall
    /\ UNCHANGED <<memories, now, prefLog, summaryDay, kbVars, streamVars>>

\* DELETE /:chatId
Delete(u, c) ==
    /\ DeleteChat(u, c)
    /\ lastCall' = NoCall
    /\ UNCHANGED <<memories, now, prefLog, summaryDay, kbVars, streamVars>>

\* the observers' record of one updateUserMemory call
CallRecord(u, failAt, sumOut, extOut, r) ==
    [user |-> u, chatCount |-> r.chatCount, threw |-> r.threw,
     summaryInvoked |-> r.summaryInvoked, extractInvoked |-> r.extractInvoked,
     summaryFailed |-> r.summaryInvoked /\ failAt = "none" /\ sumOut.kind = "callFailed",
     extractStored |-> r.extractInvoked /\ ExtractionStored(r.memories, u, extOut),
     hadRecord |-> u \in DOMAIN memories,
     summaryBefore |-> IF u \in DOMAIN memories
                       THEN memories[u].conversationSummary ELSE EmptyText,
     extracted |-> IF r.extractInvoked /\ ExtractionStored(r.memories, u, extOut)
                   THEN extOut.personalFacts ELSE << >>]

\* memory.save() of a document made by new UserMemory({ user }) is an insert:
\* the unique index on `user` rejects it (duplicate key) when a record of the
\* user was stored after this call's lookup had found none
InsertRejected(mems, chs, userId, found) ==
    ~found /\ userId \in DOMAIN mems /\ ShouldSummarize(CountDocuments(chs, userId))

\* a call of updateUserMemory (POST /update-memory, or a stream turn)
ApplyUpdate(u, failAt, sumOut, extOut) ==
    LET r == updateUserMemory(memories, chats, u, failAt, sumOut, extOut, now)
        c == CallRecord(u, failAt, sumOut, extOut, r)
    IN  /\ c.extractStored => /\ Len(prefLog[u]) < MaxLog
                              /\ Len(r.memories[u].personalFacts) <= MaxFacts
        /\ memories' = r.memories
        /\ lastCall' = c
        /\ prefLog' = IF c.extractStored
                      THEN [prefLog EXCEPT ![u] = Append(@, extOut.preferences)]
                      ELSE prefLog
        /\ summaryDay' = IF c.summaryInvoked /\ ~c.threw
                         THEN [summaryDay EXCEPT ![u] = now]
                         ELSE summaryDay

\* POST /update-memory
UpdateMemory(u, failAt, sumOut, extOut) ==
    /\ ApplyUpdate(u, failAt, sumOut, extOut)
    /\ UNCHANGED <<chats, nextChatId, now, streamVars, kbVars>>

\* variant: the lookup creates the record it does not find
GetMemory_Upsert(u, c) ==
    /\ memories' = [v \in DOMAIN memories \cup {u} |->
                        IF v \in DOMAIN memories THEN memories[v] ELSE NewUserMemory(now)]
    /\ lastCall' = NoCall
    /\ UNCHANGED <<chats, nextChatId, now, prefLog, summaryDay, kbVars, streamVars>>

\* a call of getUserMemory: a read of both collections that writes nothing
GetMemory(u, c) ==
    /\ getUserMemory(memories, chats, u, c, now).personalFacts
          = (IF u \in DOMAIN memories THEN memories[u].personalFacts ELSE << >>)
    /\ lastCall' = NoCall
    /\ UNCHANGED <<dbVars, now, prefLog, summaryDay, kbVars, streamVars>>

\* GET /:chatId: a read of the ChatHistory collection that writes nothing
GetChat(u, c) ==
    /\ GetChatResponse(chats, u, c).status \in {200, 404}
    /\ lastCall' = NoCall
    /\ UNCHANGED <<dbVars, now, prefLog, summaryDay, kbVars, streamVars>>

\* a day passes
Tick ==
    /\ now < MaxNow
    /\ now' = now + 1
    /\ lastCall' = NoCall
    /\ UNCHANGED <<dbVars, prefLog, summaryDay, kbVars, streamVars>>

\* findRelevantFiles is called and suspends at the query embedding request
FindStart(f, query) ==
    /\ finds[f].pc # "embedding"
    /\ finds' = [finds EXCEPT ![f] =
                    [pc |-> "embedding", query |-> query, result |-> << >>,
                     started |-> Len(loads)]]
    /\ lastCall' = NoCall
    /\ UNCHANGED <<dbVars, now, prefLog, summaryDay, streamVars,
                   knowledgeBase, knowledgeEmbeddings, loads>>

\* the query embedding arrives: rank, sort, slice and return
FindResolve(f, queryEmbedding) ==
    /\ finds[f].pc = "embedding"
    /\ finds' = [finds EXCEPT ![f] =
                    [@ EXCEPT !.pc = "done",
                              !.result = RankFiles(knowledgeEmbeddings, queryEmbedding)]]
    /\ lastCall' = NoCall
    /\ UNCHANGED <<dbVars, now, prefLog, summaryDay, streamVars,
                   knowledgeBase, knowledgeEmbeddings, loads>>

\* the query embedding request rejects: findRelevantFiles throws
FindReject(f) ==
    /\ finds[f].pc = "embedding"
    /\ finds' = [finds EXCEPT ![f] = [@ EXCEPT !.pc = "failed"]]
    /\ lastCall' = NoCall
    /\ UNCHANGED <<dbVars, now, prefLog, summaryDay, streamVars,
                   knowledgeBase, knowledgeEmbeddings, loads>>

\* reloadKnowledge: synchronous, so it runs between the steps of the finds
Reload(dir, file) ==
    /\ Len(loads) < MaxLoads
    /\ LET after == AfterReload(knowledgeBase, knowledgeEmbeddings, dir, file, Len(loads) + 1)
       IN  /\ knowledgeBase' = after.knowledgeBase
           /\ knowledgeEmbeddings' = after.knowledgeEmbeddings
           /\ loads' = Append(loads, after.outcome)
    /\ lastCall' = NoCall
    /\ UNCHANGED <<dbVars, now, prefLog, summaryDay, streamVars, finds>>

-----------------------------------------------------------------------------
(* SpecTrigger: conversation counts and the two maintenance triggers *)

TriggerExtractions ==
    {ExtractOutcome(k, << >>, EmptyMap) : k \in ExtractFailures}
      \cup {ExtractOutcome("ok", <<(<<"a">>)>>, [k \in {"k1"} |-> "v1"])}

TriggerNewChat ==
    \E u \in Users : nextChatId <= MaxChats /\ SaveNewChat(u, UserMsg)

TriggerDelete ==
    \E c \in DOMAIN chats : Delete("u1", c)

TriggerUpdate ==
    \E w \in Worlds(TriggerExtractions) :
        UpdateMemory("u1", w.failAt, w.sumOut, w.extOut)

NextTrigger == TriggerNewChat \/ TriggerDelete \/ TriggerUpdate

SpecTrigger == Init /\ [][NextTrigger]_vars

\* the last call got as far as reading the conversation count
ReachedTriggers == lastCall.user # None /\ ~(lastCall.threw /\ ~lastCall.summaryInvoked)

\* C1: updateUserMemory invokes the summary generator if and only if the
\* user's conversation count n is a positive multiple of 5
C1_SummaryOnlyAtPositiveMultiplesOf5 ==
    ReachedTriggers =>
        (lastCall.summaryInvoked <=>
            (lastCall.chatCount > 0 /\ lastCall.chatCount % 5 = 0))

\* C2: updateUserMemory invokes extractFactsAndPreferences if and only if
\* the user's conversation count n is a positive multiple of 3
C2_ExtractionOnlyAtPositiveMultiplesOf3 ==
    (lastCall.user # None /\ ~lastCall.threw) =>
        (lastCall.extractInvoked <=>
            (lastCall.chatCount > 0 /\ lastCall.chatCount % 3 = 0))

\* C3: when the model call of the summary regeneration fails, the call does
\* not throw and the stored conversationSummary is what it was before
C3_FailedSummaryLeavesSummaryUnchanged ==
    lastCall.summaryFailed =>
        /\ ~lastCall.threw
        /\ lastCall.user \in DOMAIN memories
        /\ memories[lastCall.user].conversationSummary = lastCall.summaryBefore

-----------------------------------------------------------------------------
(* SpecFacts: merging extracted facts into personalFacts *)

MaxExtracted == 2

FactExtractions ==
    {ExtractOutcome("ok", fs, EmptyMap) : fs \in SeqsUpTo(FactStrings, MaxExtracted)}
      \cup {ExtractOutcome("parseError", << >>, EmptyMap)}

FactsNewChat ==
    nextChatId <= MaxChats /\ SaveNewChat("u1", UserMsg)

FactsUpdate ==
    \E w \in Worlds(FactExtractions) :
        UpdateMemory("u1", w.failAt, w.sumOut, w.extOut)

NextFacts == FactsNewChat \/ FactsUpdate

SpecFacts == Init /\ [][NextFacts]_vars

FactContents(mems, u) ==
    IF u \in DOMAIN mems
    THEN [i \in 1..Len(mems[u].personalFacts) |-> mems[u].personalFacts[i].content]
    ELSE << >>

TrimmedSet(contents) == {Trim(contents[i]) : i \in 1..Len(contents)}

NoDuplicateFacts(mems, u) ==
    LET cs == FactContents(mems, u)
    IN  \A i, j \in 1..Len(cs) : Trim(cs[i]) = Trim(cs[j]) => i = j

\* C4: a merge of extracted facts never creates a duplicate: when the facts
\* had no two equal trimmed contents before, they have none after, and the
\* count grows by the number of distinct new trimmed contents
C4_MergeCreatesNoDuplicate ==
    [][\A u \in Users :
          (lastCall'.user = u /\ lastCall'.extractStored /\ NoDuplicateFacts(memories, u)) =>
             /\ NoDuplicateFacts(memories', u)
             /\ Len(FactContents(memories', u)) =
                  Len(FactContents(memories, u))
                    + Cardinality(TrimmedSet(lastCall'.extracted)
                                    \ TrimmedSet(FactContents(memories, u)))]_vars

-----------------------------------------------------------------------------
(* SpecPrefs: merging extracted preferences *)

PrefExtractions ==
    {ExtractOutcome("ok", << >>, ps) : ps \in PrefMaps}
      \cup {ExtractOutcome("parseError", << >>, EmptyMap)}

PrefsNewChat ==
    nextChatId <= MaxChats /\ SaveNewChat("u1", UserMsg)

PrefsUpdate ==
    \E w \in Worlds(PrefExtractions) :
        UpdateMemory("u1", w.failAt, w.sumOut, w.extOut)

NextPrefs == PrefsNewChat \/ PrefsUpdate

SpecPrefs == Init /\ [][NextPrefs]_vars

-----------------------------------------------------------------------------
(* SpecMerge: facts and preferences across every operation on the stores *)

MergeExtractions ==
    {ExtractOutcome("ok", <<(<<"a">>)>>, [k \in {"k1"} |-> "v1"]),
     ExtractOutcome("ok", <<(<<"b">>)>>, [k \in {"k2"} |-> "v2"])}
      \cup {ExtractOutcome(k, << >>, EmptyMap) : k \in ExtractFailures}

MergeNewChat ==
    nextChatId <= MaxChats /\ SaveNewChat("u1", UserMsg)

\* the chats that receive further messages and are cleared
MergeChatIds == {1}

MergeSaveMessage ==
    \E c \in DOMAIN chats \cap MergeChatIds :
        Len(chats[c].messages) < MaxMsgs /\ SaveMessage("u1", c, AsstMsg)

MergeClear == \E c \in DOMAIN chats \cap MergeChatIds : Clear("u1", c)

MergeDelete == \E c \in DOMAIN chats : Delete("u1", c)

MergeGet == \E c \in {NoChatId} \cup DOMAIN chats : GetMemory("u1", c)

MergeUpdate ==
    \E w \in Worlds(MergeExtractions) :
        UpdateMemory("u1", w.failAt, w.sumOut, w.extOut)

NextMerge ==
    MergeNewChat \/ MergeSaveMessage \/ MergeClear \/ MergeDelete
      \/ MergeGet \/ MergeUpdate

SpecMerge == Init /\ [][NextMerge]_vars

Preferences(mems, u) == IF u \in DOMAIN mems THEN mems[u].preferences ELSE EmptyMap

\* the most recent extraction of the log that mentions key k
LastMention(log, k) ==
    CHOOSE i \in 1..Len(log) :
        /\ k \in DOMAIN log[i]
        /\ \A j \in (i + 1)..Len(log) : k \notin DOMAIN log[j]

\* C5: preferences are merged key by key, last write wins: there is one
\* entry per key ever extracted, holding the value of the most recent
\* successful extraction that mentioned the key
C5_PreferencesLastWriteWins ==
    \A u \in Users :
        LET log == prefLog[u]
            prefs == Preferences(memories, u)
        IN  /\ DOMAIN prefs = UNION {DOMAIN log[i] : i \in 1..Len(log)}
            /\ \A k \in DOMAIN prefs : prefs[k] = log[LastMention(log, k)][k]

\* two extractions set k1 to different values, the first also set k2
C5_Witness ==
    /\ Len(prefLog["u1"]) = 2
    /\ DOMAIN prefLog["u1"][1] = {"k1", "k2"}
    /\ DOMAIN prefLog["u1"][2] = {"k1"}
    /\ prefLog["u1"][1]["k1"] # prefLog["u1"][2]["k1"]

\* C6: facts and preferences only grow: no step removes a memory document,
\* a fact of its personalFacts or a key of its preferences
C6_FactsAndPreferencesOnlyGrow ==
    [][\A u \in DOMAIN memories :
          /\ u \in DOMAIN memories'
          /\ Range(memories[u].personalFacts) \subseteq Range(memories'[u].personalFacts)
          /\ DOMAIN memories[u].preferences \subseteq DOMAIN memories'[u].preferences]_vars

\* a summary was regenerated, or failed, for a user who had a fact and a
\* preference before the call
C6_Witness ==
    /\ lastCall.user = "u1" /\ lastCall.hadRecord
    /\ lastCall.summaryInvoked /\ ~lastCall.extractStored
    /\ memories["u1"].personalFacts # << >>
    /\ DOMAIN memories["u1"].preferences # {}
    /\ lastCall.chatCount = 5

-----------------------------------------------------------------------------
(* The streaming handlers: routes/chat.js GET /stream ("router") and          *)
(* index.js GET /chat-stream ("app"), from the point where the middleware     *)
(* chain (protect, checkQueryLimit, validate, sanitize) has passed.  Each     *)
(* action is the code between two awaits.                                     *)

Routes == {"router", "app"}

\* checkQueryLimit: the queries a non-premium user may make per day
DailyQueryLimit == 50

\* the keys of personaPrompts (the values the validator lets through)
WisdomFigures == {"Buddha", "Sagan"}
GenericInstruction == <<"You are a wise assistant. Answer thoughtfully.">>

\* personaPrompts[wisdomFigure], or the generic instruction
PersonaInstruction(figure) ==
    IF figure \in WisdomFigures THEN <<"You are ", figure>> ELSE GenericInstruction

\* memory.personalFacts.map(fact => fact.content).join('. ')
PersonalFactsStr(memory) ==
    Join([i \in 1..Len(memory.personalFacts) |-> memory.personalFacts[i].content], <<". ">>)

\* Array.from(memory.preferences.entries || []): `entries` is not called, so
\* the argument is the method itself, a function object of length 0, and
\* Array.from of it is the empty array (as it is for the [] fallback)
PreferenceEntries(preferences) == << >>

\* .map(([key, val]) => `${key}: ${val}`).join(', ')
PreferencesStr(memory) ==
    LET entries == PreferenceEntries(memory.preferences)
    IN  Join([i \in 1..Len(entries) |-> <<entries[i][1], ": ", entries[i][2]>>], <<", ">>)

\* relevantFiles.map((file) => file.content).join("\n")
KnowledgeContext(relevantFiles) ==
    Join([i \in 1..Len(relevantFiles) |-> relevantFiles[i].content], <<"\n">>)

\* routes/chat.js: the system message of a turn
RouterSystemMessage(figure, memory, relevantFiles) ==
    PersonaInstruction(figure)
      \o <<"About the user: ">> \o PersonalFactsStr(memory)
      \o <<"User preferences: ">> \o PreferencesStr(memory)
      \o <<"Recent conversation context: ">> \o memory.relevantHistory
      \o <<"Context from knowledge base:">> \o KnowledgeContext(relevantFiles)

\* index.js: the system message of a turn
AppSystemMessage(figure, relevantFiles) ==
    PersonaInstruction(figure) \o <<"Context:\n">> \o KnowledgeContext(relevantFiles)
\* the i-th chunk of the model's reply
ChunkNames == <<"c1", "c2", "c3", "c4">>
ChunkText(i) == <<ChunkNames[i]>>
Terminal == {"idle", "finished", "failed", "hung"}

ContentEvent(text) == [type |-> "content", text |-> text]
DoneEvent == [type |-> "done", text |-> EmptyText]

\* the catch block of the handler, entered from the await at `at`.
\* router: res.status(500).json(...), which throws once the headers are sent
\*         and leaves the response open;
\* app:    writeHead(500) unless the headers are sent, then res.end(error)
Catch(req, at) ==
    IF req.route = "router" /\ req.headersSent
    THEN [req EXCEPT !.pc = "hung", !.failedAt = at]
    ELSE [req EXCEPT !.pc = "failed", !.failedAt = at,
                     !.status = IF req.headersSent THEN @ ELSE 500,
                     !.headersSent = TRUE, !.ended = TRUE, !.errorBody = TRUE]

\* variant: the event is put in front of the ones already written
WriteContent_Prepend(req, chunkText) ==
    [req EXCEPT !.received = Append(@, chunkText),
                !.fullReply = @ \o chunkText,
                !.events = <<ContentEvent(chunkText)>> \o @,
                !.status = 200, !.headersSent = TRUE]

\* the body of the for-await loop: fullReply += chunkText; res.write(content)
WriteContent(req, chunkText) ==
    [req EXCEPT !.received = Append(@, chunkText),
                !.fullReply = @ \o chunkText,
                !.events = Append(@, ContentEvent(chunkText)),
                !.status = 200, !.headersSent = TRUE]

\* res.write(done); res.end()
WriteDone(req) ==
    [req EXCEPT !.pc = "finished", !.events = Append(@, DoneEvent),
                !.status = 200, !.headersSent = TRUE, !.ended = TRUE]

\* the request passed the middleware chain and the handler starts
StreamStart(r, route, u, c, figure) ==
    /\ reqs[r].pc \in Terminal
    /\ turns < MaxTurns
    /\ turns' = turns + 1
    /\ reqs' = [reqs EXCEPT ![r] =
                  [NoReq EXCEPT !.pc = IF route = "router" THEN "getMemory" ELSE "fetchChat",
                                !.route = route, !.user = u, !.chatId = c,
                                !.wisdomFigure = figure]]
    /\ lastCall' = NoCall
    /\ UNCHANGED <<dbVars, now, prefLog, summaryDay, kbVars, conversationHistory, users, completed>>

\* checkQueryLimit for a non-premium user on the day of the last reset (the
\* reset branch is not taken): at the limit the request is answered with
\* 429, below it the middleware chain goes on and the handler starts
LimitedStart(r, route, u, c, figure) ==
    IF users[u] >= DailyQueryLimit
    THEN /\ reqs[r].pc \in Terminal
         /\ turns < MaxTurns
         /\ turns' = turns + 1
         /\ reqs' = [reqs EXCEPT ![r] =
                       [NoReq EXCEPT !.pc = "failed", !.route = route, !.user = u,
                                     !.chatId = c, !.wisdomFigure = figure,
                                     !.status = 429, !.headersSent = TRUE,
                                     !.ended = TRUE, !.errorBody = TRUE,
                                     !.failedAt = "checkQueryLimit"]]
         /\ lastCall' = NoCall
         /\ UNCHANGED <<dbVars, now, prefLog, summaryDay, kbVars,
                        conversationHistory, users, completed>>
    ELSE StreamStart(r, route, u, c, figure)

\* router: await getUserMemory(userId, message, chatId)
StreamGetMemory(r) ==
    /\ reqs[r].pc = "getMemory"
    /\ reqs' = [reqs EXCEPT ![r] =
                  [@ EXCEPT !.pc = "knowledge",
                            !.memory = getUserMemory(memories, chats, reqs[r].user, reqs[r].chatId, now)]]
    /\ lastCall' = NoCall
    /\ UNCHANGED <<dbVars, now, prefLog, summaryDay, kbVars, conversationHistory, turns, users, completed>>

\* app: await ChatHistory.findOne({ _id: chatId, user: userId }).select('messages')
StreamFetchChat(r) ==
    /\ reqs[r].pc = "fetchChat"
    /\ reqs' = [reqs EXCEPT ![r] =
                  [@ EXCEPT !.pc = "knowledge",
                            !.chatMessages =
                                IF reqs[r].chatId # NoChatId /\ FindChat(chats, reqs[r].chatId, reqs[r].user)
                                THEN [i \in 1..Len(chats[reqs[r].chatId].messages) |->
                                        [role |-> chats[reqs[r].chatId].messages[i].role,
                                         content |-> chats[reqs[r].chatId].messages[i].content]]
                                ELSE << >>]]
    /\ lastCall' = NoCall
    /\ UNCHANGED <<dbVars, now, prefLog, summaryDay, kbVars, conversationHistory, turns, users, completed>>

\* await findRelevantFiles(...) resolves; the prompt is built, the SSE headers
\* are set and the completion is requested
StreamKnowledge(r, message, queryEmbedding) ==
    /\ reqs[r].pc = "knowledge"
    /\ LET current == [role |-> "user", content |-> message]
           relevantFiles == RankFiles(knowledgeEmbeddings, queryEmbedding)
           history == IF reqs[r].route = "router"
                      THEN Append(conversationHistory, current)
                      ELSE conversationHistory
       IN  /\ conversationHistory' = history
           /\ reqs' = [reqs EXCEPT ![r] =
                         [@ EXCEPT !.pc = "create",
                                   !.systemMessage =
                                       IF reqs[r].route = "router"
                                       THEN RouterSystemMessage(reqs[r].wisdomFigure,
                                                                reqs[r].memory, relevantFiles)
                                       ELSE AppSystemMessage(reqs[r].wisdomFigure, relevantFiles),
                                   !.prompt = IF reqs[r].route = "router" THEN history
                                              ELSE Append(reqs[r].chatMessages, current)]]
    /\ lastCall' = NoCall
    /\ UNCHANGED <<dbVars, now, prefLog, summaryDay, kbVars, turns, users, completed>>

\* await openai.chat.completions.create({ stream: true }) resolves
StreamCreate(r) ==
    /\ reqs[r].pc = "create"
    /\ reqs' = [reqs EXCEPT ![r] = [@ EXCEPT !.pc = "streaming"]]
    /\ lastCall' = NoCall
    /\ UNCHANGED <<dbVars, now, prefLog, summaryDay, kbVars, conversationHistory, turns, users, completed>>

\* the model stream yields a chunk
StreamChunk(r, chunkText) ==
    /\ reqs[r].pc = "streaming"
    /\ Len(reqs[r].received) < MaxChunks
    /\ reqs' = [reqs EXCEPT ![r] = WriteContent(@, chunkText)]
    /\ lastCall' = NoCall
    /\ UNCHANGED <<dbVars, now, prefLog, summaryDay, kbVars, conversationHistory, turns, users, completed>>

\* the model stream ends
StreamEnd(r) ==
    /\ reqs[r].pc = "streaming"
    /\ reqs' = [reqs EXCEPT ![r] =
                  [@ EXCEPT !.pc = IF reqs[r].route = "router" THEN "maintain" ELSE "findUser"]]
    /\ conversationHistory' =
          IF reqs[r].route = "router"
          THEN Append(conversationHistory,
                      [role |-> "assistant", content |-> reqs[r].fullReply])
          ELSE conversationHistory
    /\ lastCall' = NoCall
    /\ UNCHANGED <<dbVars, now, prefLog, summaryDay, kbVars, turns, users, completed>>

\* what went wrong inside one updateUserMemory call, if anything
MaintFailure(call, failAt, extOut) ==
    IF call.threw THEN failAt
    ELSE IF call.summaryFailed THEN "summaryCall"
    ELSE IF call.extractInvoked /\ extOut.kind # "ok" THEN "extraction"
    ELSE None

\* router: await updateUserMemory(userId, { userMessage, aiResponse, wisdomFigure })
StreamMaintain(r, w) ==
    /\ reqs[r].pc = "maintain"
    /\ ApplyUpdate(reqs[r].user, w.failAt, w.sumOut, w.extOut)
    /\ LET req == [reqs[r] EXCEPT
                      !.maintained = TRUE,
                      !.maintFailure = MaintFailure(lastCall', w.failAt, w.extOut)]
       IN  reqs' = [reqs EXCEPT ![r] =
                      IF lastCall'.threw THEN Catch(req, "maintain")
                      ELSE [req EXCEPT !.pc = "findUser"]]
    /\ UNCHANGED <<chats, nextChatId, now, conversationHistory, turns, users, completed, kbVars>>

\* await User.findById(req.user._id)
StreamFindUser(r) ==
    /\ reqs[r].pc = "findUser"
    /\ reqs' = [reqs EXCEPT ![r] =
                  [@ EXCEPT !.pc = "saveUser", !.userCount = users[reqs[r].user]]]
    /\ lastCall' = NoCall
    /\ UNCHANGED <<dbVars, now, prefLog, summaryDay, kbVars, conversationHistory, turns, users, completed>>

\* user.dailyQueryCount += 1; await user.save(); then the completion event
StreamSaveUser(r) ==
    /\ reqs[r].pc = "saveUser"
    /\ users' = [users EXCEPT ![reqs[r].user] = reqs[r].userCount + 1]
    /\ completed' = [completed EXCEPT ![reqs[r].user] = @ + 1]
    /\ reqs' = [reqs EXCEPT ![r] = WriteDone(@)]
    /\ lastCall' = NoCall
    /\ UNCHANGED <<dbVars, now, prefLog, summaryDay, kbVars, conversationHistory, turns>>

\* the awaited operation of the handler's own code rejects: the memory
\* lookup, the chat lookup, the knowledge retrieval, the completion request,
\* the model stream, or the user lookup or save
StreamFail(r) ==
    /\ reqs[r].pc \in {"getMemory", "fetchChat", "knowledge", "create",
                       "streaming", "findUser", "saveUser"}
    /\ reqs' = [reqs EXCEPT ![r] =
                  Catch([@ EXCEPT !.modelFailed = reqs[r].pc \in {"create", "streaming"}], reqs[r].pc)]
    /\ lastCall' = NoCall
    /\ UNCHANGED <<dbVars, now, prefLog, summaryDay, kbVars, conversationHistory, turns, users, completed>>

\* the client closes the connection while the reply is streamed.  Neither
\* handler listens for 'close' on req or res and neither passes an abort
\* signal to the completion request, so nothing of the handler runs; a later
\* res.write on the closed response returns false and does not throw
StreamDisconnect(r) ==
    /\ reqs[r].pc = "streaming"
    /\ ~reqs[r].disconnected
    /\ reqs' = [reqs EXCEPT ![r] = [@ EXCEPT !.disconnected = TRUE]]
    /\ lastCall' = NoCall
    /\ UNCHANGED <<dbVars, now, prefLog, summaryDay, kbVars, conversationHistory, turns, users, completed>>

\* POST /update-memory is received and updateUserMemory is called
UpdateStart(r, u) ==
    /\ reqs[r].pc \in Terminal
    /\ turns < MaxTurns
    /\ turns' = turns + 1
    /\ reqs' = [reqs EXCEPT ![r] = [NoReq EXCEPT !.pc = "lookup", !.route = "update", !.user = u]]
    /\ lastCall' = NoCall
    /\ UNCHANGED <<dbVars, now, prefLog, summaryDay, kbVars, conversationHistory, users, completed>>

\* updateUserMemory: await UserMemory.findOne({ user: userId })
UpdateLookup(r) ==
    /\ reqs[r].pc = "lookup"
    /\ reqs' = [reqs EXCEPT ![r] =
                  [@ EXCEPT !.pc = "rest", !.memoryFound = reqs[r].user \in DOMAIN memories]]
    /\ lastCall' = NoCall
    /\ UNCHANGED <<dbVars, now, prefLog, summaryDay, kbVars, conversationHistory, turns, users, completed>>

\* updateUserMemory from the count onwards, then the route's response:
\* { success: true }, or 500 from its catch block when the call threw
UpdateRest(r, w) ==
    /\ reqs[r].pc = "rest"
    /\ ApplyUpdate(reqs[r].user,
                   IF InsertRejected(memories, chats, reqs[r].user, reqs[r].memoryFound)
                   THEN "save" ELSE w.failAt,
                   w.sumOut, w.extOut)
    /\ reqs' = [reqs EXCEPT ![r] =
                  IF lastCall'.threw THEN Catch(@, "updateUserMemory")
                  ELSE [@ EXCEPT !.pc = "finished", !.status = 200,
                                 !.headersSent = TRUE, !.ended = TRUE]]
    /\ UNCHANGED <<chats, nextChatId, now, conversationHistory, turns, users, completed, kbVars>>

-----------------------------------------------------------------------------
(* SpecStream: successive stream turns of one user over both handlers *)

\* the request slots in use, and the outcomes of the extraction
StreamReqs == {"r1"}
StreamExtractions ==
    {ExtractOutcome("callFailed", << >>, EmptyMap),
     ExtractOutcome("ok", <<(<<"a">>)>>, [k \in {"k1"} |-> "v1"])}

StreamNewChat ==
    nextChatId <= MaxLiveChats /\ SaveNewChat("u1", UserMsg)

NextStream ==
    \/ StreamNewChat
    \/ \E r \in StreamReqs, route \in Routes, c \in {NoChatId} \cup DOMAIN chats :
          StreamStart(r, route, "u1", c, "Buddha")
    \/ \E r \in StreamReqs : StreamGetMemory(r)
    \/ \E r \in StreamReqs : StreamFetchChat(r)
    \/ \E r \in StreamReqs : StreamKnowledge(r, <<"hi">>, <<1, 0>>)
    \/ \E r \in StreamReqs : StreamCreate(r)
    \/ \E r \in StreamReqs : StreamChunk(r, ChunkText(Len(reqs[r].received) + 1))
    \/ \E r \in StreamReqs : StreamEnd(r)
    \/ \E r \in StreamReqs, w \in Worlds(StreamExtractions) : StreamMaintain(r, w)
    \/ \E r \in StreamReqs : StreamFindUser(r)
    \/ \E r \in StreamReqs : StreamSaveUser(r)
    \/ \E r \in StreamReqs : StreamFail(r)

SpecStream == Init /\ [][NextStream]_vars

\* C7: a failure inside memory maintenance never changes the outcome of
\* the stream turn: the handler does not enter its error path because of it,
\* and the turn ends with every content event followed by the done event
C7_MaintenanceFailureNeverAffectsTurn ==
    \A r \in Reqs :
        reqs[r].maintFailure # None =>
            /\ reqs[r].failedAt # "maintain"
            /\ reqs[r].pc \notin {"failed", "hung"} \/ reqs[r].failedAt \in {"findUser", "saveUser"}

\* C8: updateUserMemory begins only after the done event has been written
C8_MaintenanceOnlyAfterDone ==
    \A r \in Reqs :
        reqs[r].maintained => DoneEvent \in Range(reqs[r].events)

\* the content events of the first n chunks of the reply, in arrival order
ContentEvents(n) == [i \in 1..n |-> ContentEvent(ChunkText(i))]

-----------------------------------------------------------------------------
(* SpecGet: getUserMemory over chats of two users and an ageing summary *)

GetExtractions == {ExtractOutcome("callFailed", << >>, EmptyMap)}

GetNewChat ==
    \E u \in Users :
        nextChatId <= MaxLiveChats /\ SaveNewChat(u, UserMsg)

GetSaveMessage ==
    \E c \in DOMAIN chats :
        Len(chats[c].messages) < MaxMsgs /\ SaveMessage(chats[c].user, c, AsstMsg)

GetDelete == \E c \in DOMAIN chats : Delete(chats[c].user, c)

GetUpdate ==
    \E w \in Worlds(GetExtractions) :
        w.failAt = "none" /\ UpdateMemory("u1", w.failAt, w.sumOut, w.extOut)

GetRead == \E u \in Users, c \in 0..nextChatId : GetMemory(u, c)

NextGet ==
    GetNewChat \/ GetSaveMessage \/ GetDelete \/ GetUpdate
      \/ GetRead \/ Tick

SpecGet == Init /\ [][NextGet]_vars

\* C10: for a chat that exists but is owned by another user, getUserMemory
\* returns exactly what it returns for a chat id that does not exist
C10_ForeignChatIsLikeMissingChat ==
    \A u \in Users, c \in DOMAIN chats, missing \in (1..nextChatId) \ DOMAIN chats :
        chats[c].user # u =>
            getUserMemory(memories, chats, u, c, now)
              = getUserMemory(memories, chats, u, missing, now)

\* u1 has a fresh summary and u2 owns a chat with two messages
C10_Witness ==
    /\ "u1" \in DOMAIN memories
    /\ GeneralSummary(memories["u1"], TRUE, now) # EmptyText
    /\ \E c \in DOMAIN chats : chats[c].user = "u2" /\ Len(chats[c].messages) = 2
    /\ \E c \in DOMAIN chats : chats[c].user = "u1" /\ Len(chats[c].messages) > 0

\* the summary getUserMemory holds fresh for user u, and the rendered window
\* of chat c for user u, in the current state
FreshSummary(u) ==
    GeneralSummary(IF u \in DOMAIN memories THEN memories[u] ELSE EmptyMemory(now),
                   u \in DOMAIN memories, now)

Window(u, c) == RenderHistory(CurrentChatMessages(chats, u, c))

SummarySection(summary) == <<"General summary of past interactions:\n">> \o summary

\* C11: relevantHistory is composed by four cases: (a) fresh summary and a
\* non-empty window that differs from it: the labeled summary section, then
\* the window under its own label; (b) fresh summary and no window: the
\* labeled summary section alone; (c) no fresh summary and a window: the
\* window alone; (d) neither: the empty text
C11_RelevantHistoryFourCases ==
    \A u \in Users, c \in 0..nextChatId :
        LET summary == FreshSummary(u)
            window == Window(u, c)
            history == getUserMemory(memories, chats, u, c, now).relevantHistory
        IN  /\ (summary # EmptyText /\ window # EmptyText /\ window # summary) =>
                  history = SummarySection(summary)
                              \o <<"\n\nCurrent conversation:\n">> \o window
            /\ (summary # EmptyText /\ window = EmptyText) =>
                  history = SummarySection(summary)
            /\ (summary = EmptyText /\ window # EmptyText) => history = window
            /\ (summary = EmptyText /\ window = EmptyText) => history = EmptyText

-----------------------------------------------------------------------------
(* SpecAge: a summary ageing while extractions keep touching the record *)

AgeExtractions ==
    {ExtractOutcome("callFailed", << >>, EmptyMap),
     ExtractOutcome("ok", << >>, EmptyMap)}

AgeNewChat ==
    nextChatId <= ExtractEvery /\ SaveNewChat("u1", UserMsg)

AgeUpdate ==
    \E w \in Worlds(AgeExtractions) :
        w.failAt = "none" /\ UpdateMemory("u1", w.failAt, w.sumOut, w.extOut)

AgeRead == \E c \in 0..nextChatId : GetMemory("u1", c)

NextAge == AgeNewChat \/ AgeUpdate \/ AgeRead \/ Tick

SpecAge == Init /\ [][NextAge]_vars

\* C12: when more than 7 days have passed since the stored summary of a user
\* was generated, the relevantHistory returned by getUserMemory for that user
\* holds no part of the summary, whatever regenerations and extractions came
\* before
C12_StaleSummaryNeverUsed ==
    \A u \in DOMAIN memories, c \in 0..nextChatId :
        (/\ memories[u].conversationSummary # EmptyText
         /\ now - summaryDay[u] > MAX_SUMMARY_AGE_DAYS) =>
            Range(memories[u].conversationSummary)
              \cap Range(getUserMemory(memories, chats, u, c, now).relevantHistory) = {}

-----------------------------------------------------------------------------
(* Claims on the stream handlers' context, checked in SpecStream *)

\* C13: a failed memory lookup or knowledge retrieval is not surfaced: the
\* turn that met it does not enter the error path and gets no error response
C13_RetrievalFailureNotSurfaced ==
    \A r \in Reqs :
        reqs[r].failedAt \in {"getMemory", "knowledge"} =>
            /\ reqs[r].pc \notin {"failed", "hung"}
            /\ reqs[r].status # 500 /\ ~reqs[r].errorBody

\* text occurs in whole as a contiguous part, starting behind position from
OccursBehind(text, whole, from) ==
    \E i \in (from + 1)..(Len(whole) - Len(text) + 1) :
        SubSeq(whole, i, i + Len(text) - 1) = text

\* C14: the system instruction of a router turn starts with the persona
\* instruction and the joined facts, then holds every stored preference as
\* a key: value pair, then the relevantHistory and the knowledge context
C14_SystemInstructionOrder ==
    \A r \in Reqs :
        (reqs[r].route = "router" /\ reqs[r].systemMessage # EmptyText) =>
            LET memory == reqs[r].memory
                sys == reqs[r].systemMessage
                head == PersonaInstruction(reqs[r].wisdomFigure)
                          \o <<"About the user: ">> \o PersonalFactsStr(memory)
                          \o <<"User preferences: ">>
                tail == <<"Recent conversation context: ">> \o memory.relevantHistory
                          \o <<"Context from knowledge base:">>
            IN  /\ Len(sys) >= Len(head) /\ SubSeq(sys, 1, Len(head)) = head
                /\ \A k \in DOMAIN memory.preferences :
                      OccursBehind(<<k, ": ", memory.preferences[k]>>, sys, Len(head))
                /\ OccursBehind(tail, sys, Len(head))

-----------------------------------------------------------------------------
(* SpecIsolation: stream turns of two users, one after another, over both *)
(* handlers and over chats of both users                                   *)

\* what user u types
MessageOf(u) == <<"hi from ", u>>

IsoNewChat ==
    \E u \in Users :
        /\ nextChatId <= MaxLiveChats
        /\ SaveNewChat(u, [role |-> "user", content |-> MessageOf(u), figure |-> None])

IsoMaintain ==
    \E r \in StreamReqs :
        StreamMaintain(r, [failAt |-> "none",
                           sumOut |-> [kind |-> "callFailed", text |-> EmptyText],
                           extOut |-> ExtractOutcome("callFailed", << >>, EmptyMap)])

NextIsolation ==
    \/ IsoNewChat
    \/ \E r \in StreamReqs, route \in Routes, u \in Users, c \in {NoChatId} \cup DOMAIN chats :
          StreamStart(r, route, u, c, "Buddha")
    \/ \E r \in StreamReqs : StreamGetMemory(r)
    \/ \E r \in StreamReqs : StreamFetchChat(r)
    \/ \E r \in StreamReqs : StreamKnowledge(r, MessageOf(reqs[r].user), <<1, 0>>)
    \/ \E r \in StreamReqs : StreamCreate(r)
    \/ \E r \in StreamReqs : StreamChunk(r, ChunkText(Len(reqs[r].received) + 1))
    \/ \E r \in StreamReqs : StreamEnd(r)
    \/ IsoMaintain
    \/ \E r \in StreamReqs : StreamFindUser(r)
    \/ \E r \in StreamReqs : StreamSaveUser(r)
    \/ \E r \in StreamReqs : StreamFail(r)

SpecIsolation == Init /\ [][NextIsolation]_vars

\* the message is one of those persisted in chat c, and c is a chat of user u
PersistedIn(msg, u, c) ==
    /\ c # NoChatId /\ FindChat(chats, c, u)
    /\ \E j \in 1..Len(chats[c].messages) :
          /\ chats[c].messages[j].role = msg.role
          /\ chats[c].messages[j].content = msg.content

\* C15: the messages sent to the model for a turn of user u on chat c, the
\* system instruction aside, are messages persisted in chat c of user u,
\* followed by the new user message
C15_PromptHoldsOnlyOwnChat ==
    \A r \in Reqs :
        LET q == reqs[r]
        IN  q.prompt # << >> =>
              /\ q.prompt[Len(q.prompt)] = [role |-> "user", content |-> MessageOf(q.user)]
              /\ \A i \in 1..(Len(q.prompt) - 1) : PersistedIn(q.prompt[i], q.user, q.chatId)

-----------------------------------------------------------------------------
(* SpecKnowledge: reloads of the knowledge interleaved with two retrievals *)

KnowledgeDirs ==
    {DirOutcome(FALSE, << >>), DirOutcome(TRUE, <<"f1">>), DirOutcome(TRUE, <<"f1", "f2">>)}

KnowledgeFiles ==
    {FileOutcome(FALSE, << >>),
     FileOutcome(TRUE, <<(<<1, 0>>), (<<0, 1>>)>>),
     FileOutcome(TRUE, <<(<<1, 1>>), (<<1, 0>>), (<<0, 1>>), (<<-1, 0>>)>>)}

InitStartup ==
    /\ InitApp
    /\ \E dir \in KnowledgeDirs, file \in KnowledgeFiles : StartupLoad(dir, file)

KnowledgeFind == \E f \in FindSlots : FindStart(f, <<"hi">>)

KnowledgeResolve == \E f \in FindSlots, q \in {<<1, 0>>, <<0, 1>>} : FindResolve(f, q)

KnowledgeReject == \E f \in FindSlots : FindReject(f)

KnowledgeReload == \E dir \in KnowledgeDirs, file \in KnowledgeFiles : Reload(dir, file)

NextKnowledge == KnowledgeFind \/ KnowledgeResolve \/ KnowledgeReject \/ KnowledgeReload

SpecKnowledge == InitStartup /\ [][NextKnowledge]_vars

\* C16: every finished findRelevantFiles call returned items of exactly one
\* load of the corpus, whatever reloads ran while it was suspended
C16_ResultFromOneLoad ==
    \A f \in FindSlots :
        finds[f].pc = "done" =>
            \A i, j \in 1..Len(finds[f].result) :
                finds[f].result[i].load = finds[f].result[j].load

\* a call that was suspended across a reload and returned several items of
\* the load made meanwhile
C16_Witness ==
    \E f \in FindSlots :
        /\ finds[f].pc = "done" /\ Len(finds[f].result) >= 2
        /\ finds[f].result[1].load > finds[f].started
        /\ knowledgeEmbeddings # << >>

\* the files or embeddings as they are compared: without the load number
Unloaded(items) ==
    [i \in 1..Len(items) |->
        IF "fileName" \in DOMAIN items[i]
        THEN [fileName |-> items[i].fileName, content |-> items[i].content]
        ELSE [content |-> items[i].content, embedding |-> items[i].embedding]]

\* C17: a reload that fails leaves knowledgeBase and knowledgeEmbeddings
\* equal to their values before the call
C17_FailedReloadChangesNothing ==
    [][(Len(loads') > Len(loads) /\ loads'[Len(loads')] = "failed") =>
          /\ Unloaded(knowledgeBase') = Unloaded(knowledgeBase)
          /\ Unloaded(knowledgeEmbeddings') = Unloaded(knowledgeEmbeddings)]_vars

-----------------------------------------------------------------------------
(* SpecRetrieve: one retrieval at a time over every corpus of up to MaxCorpus *)
(* embeddings                                                                 *)

RetrieveFiles == {FileOutcome(TRUE, vs) : vs \in SeqsUpTo(Vectors, MaxCorpus)}

InitRetrieve ==
    /\ InitApp
    /\ \E file \in RetrieveFiles : StartupLoad(DirOutcome(TRUE, <<"f1">>), file)

RetrieveFind == FindStart("f1", <<"hi">>)

RetrieveResolve == \E q \in Vectors : FindResolve("f1", q)

RetrieveReject == FindReject("f1")

NextRetrieve == RetrieveFind \/ RetrieveResolve \/ RetrieveReject

SpecRetrieve == InitRetrieve /\ [][NextRetrieve]_vars

\* res is a ranking of corpus for the query embedding q: the right number of
\* items of the corpus, each with its similarity to q, in non-increasing
\* order, none smaller than an item left out
IsTopRanking(res, corpus, q) ==
    /\ Len(res) = (IF Len(corpus) < 3 THEN Len(corpus) ELSE 3)
    /\ \A i \in 1..Len(res) :
          \E k \in 1..Len(corpus) :
             /\ res[i].content = corpus[k].content
             /\ res[i].embedding = corpus[k].embedding
             /\ res[i].similarity = cosineSimilarity(q, corpus[k].embedding)
    /\ \A i, j \in 1..Len(res) : i # j => res[i].content # res[j].content
    /\ \A i \in 1..(Len(res) - 1) : ~SimLess(res[i].similarity, res[i + 1].similarity)
    /\ \A i \in 1..Len(res), k \in 1..Len(corpus) :
          (\A j \in 1..Len(res) : res[j].content # corpus[k].content) =>
              ~SimLess(res[i].similarity, cosineSimilarity(q, corpus[k].embedding))

-----------------------------------------------------------------------------
(* SpecAppend: clients saving messages to their chats, one save at a time *)

MoreMsg == [role |-> "user", content |-> <<"more">>, figure |-> None]
AppendMessages == {UserMsg, AsstMsg, MoreMsg}

AppendNewChat ==
    \E u \in Users, m \in AppendMessages :
        nextChatId <= MaxLiveChats /\ SaveNewChat(u, m)

AppendSave ==
    \E u \in Users, c \in DOMAIN chats, m \in AppendMessages :
        Len(chats[c].messages) < MaxMsgs /\ SaveMessage(u, c, m)

NextAppend == AppendNewChat \/ AppendSave

SpecAppend == Init /\ [][NextAppend]_vars

\* C19: every acknowledged save to an existing chat puts exactly its message
\* behind the messages already stored, which keep position and content, and
\* sets lastMessage to its content; so messages saved one after another end
\* the list in the order they were saved, each once
C19_SavesAppendInOrder ==
    [][\A c \in DOMAIN chats :
          (c \in DOMAIN chats' /\ chats'[c] # chats[c]) =>
             \E m \in AppendMessages :
                /\ chats'[c].messages = Append(chats[c].messages, m)
                /\ chats'[c].lastMessage = m.content
                /\ chats'[c].user = chats[c].user]_vars

\* two chats that each got a second message behind their first one
C19_Witness ==
    \E c, d \in DOMAIN chats :
        /\ chats[c].messages = <<UserMsg, AsstMsg>>
        /\ chats[c].lastMessage = AsstMsg.content
        /\ chats[d].messages = <<AsstMsg, MoreMsg>>
        /\ chats[d].lastMessage = MoreMsg.content

-----------------------------------------------------------------------------
(* SpecOwner: two users reading, extending, clearing and deleting chats by *)
(* id, their own, the other's and ids that match nothing                   *)

OwnerNewChat ==
    \E u \in Users : nextChatId <= MaxLiveChats /\ SaveNewChat(u, UserMsg)

OwnerGet == \E u \in Users, c \in 1..nextChatId : GetChat(u, c)

OwnerSave ==
    \E u \in Users, c \in 1..nextChatId, m \in {UserMsg, AsstMsg} :
        /\ c \in DOMAIN chats => Len(chats[c].messages) < MaxMsgs
        /\ SaveMessage(u, c, m)

OwnerClear == \E u \in Users, c \in 1..nextChatId : Clear(u, c)

OwnerDelete == \E u \in Users, c \in 1..nextChatId : Delete(u, c)

NextOwner == OwnerNewChat \/ OwnerGet \/ OwnerSave \/ OwnerClear \/ OwnerDelete

SpecOwner == Init /\ [][NextOwner]_vars

\* C20: for get, save, clear and delete, a request that names a chat of
\* another user gets the response (404 and the same body) of a request that
\* names a chat that does not exist, and leaves the collection as it is
C20_ForeignChatAnsweredAsMissing ==
    \A u \in Users, c \in DOMAIN chats, missing \in (1..nextChatId) \ DOMAIN chats :
        chats[c].user # u =>
            /\ GetChatResponse(chats, u, c).status = 404
            /\ GetChatResponse(chats, u, c) = GetChatResponse(chats, u, missing)
            /\ SaveMessageResponse(chats, u, c, AsstMsg).status = 404
            /\ SaveMessageResponse(chats, u, c, AsstMsg)
                  = SaveMessageResponse(chats, u, missing, AsstMsg)
            /\ ClearResponse(chats, u, c).status = 404
            /\ ClearResponse(chats, u, c) = ClearResponse(chats, u, missing)
            /\ DeleteResponse(chats, u, c).status = 404
            /\ DeleteResponse(chats, u, c) = DeleteResponse(chats, u, missing)
            /\ SavedChats(chats, u, c, AsstMsg) = chats
            /\ ClearedChats(chats, u, c) = chats
            /\ DeletedChats(chats, u, c) = chats

\* a chat of u2 with two messages next to an id whose chat was deleted
C20_Witness ==
    \E c \in DOMAIN chats, missing \in 1..(nextChatId - 1) :
        /\ chats[c].user = "u2" /\ Len(chats[c].messages) = 2
        /\ missing \notin DOMAIN chats

-----------------------------------------------------------------------------
(* Stream turns and provider failures (SpecStream) *)

\* the awaits of a stream handler that wait for the model provider: the query
\* embedding inside findRelevantFiles, the completion request, a chunk
ProviderAwaits == {"knowledge", "create", "streaming"}

\* C21: when the embedding or completion call of an accepted stream request
\* fails, before or after the first chunk was written, the handler ends the
\* response with an error indication and its error path raises nothing
C21_ProviderFailureEndsResponse ==
    \A r \in Reqs :
        reqs[r].failedAt \in ProviderAwaits =>
            /\ reqs[r].pc = "failed"
            /\ reqs[r].ended /\ reqs[r].errorBody

-----------------------------------------------------------------------------
(* SpecDisconnect: stream turns on a persisted chat whose client may close *)
(* the connection while the reply is streamed                               *)

NextDisconnect ==
    \/ nextChatId <= MaxLiveChats /\ SaveNewChat("u1", UserMsg)
    \/ \E r \in StreamReqs, route \in Routes, c \in DOMAIN chats :
          StreamStart(r, route, "u1", c, "Buddha")
    \/ \E r \in StreamReqs : StreamGetMemory(r)
    \/ \E r \in StreamReqs : StreamFetchChat(r)
    \/ \E r \in StreamReqs : StreamKnowledge(r, <<"hi">>, <<1, 0>>)
    \/ \E r \in StreamReqs : StreamCreate(r)
    \/ \E r \in StreamReqs : StreamChunk(r, ChunkText(Len(reqs[r].received) + 1))
    \/ \E r \in StreamReqs : StreamDisconnect(r)
    \/ \E r \in StreamReqs : StreamEnd(r)
    \/ \E r \in StreamReqs, so \in SummaryOutcomes :
          StreamMaintain(r, [failAt |-> "none", sumOut |-> so,
                             extOut |-> ExtractOutcome("callFailed", << >>, EmptyMap)])
    \/ \E r \in StreamReqs : StreamFindUser(r)
    \/ \E r \in StreamReqs : StreamSaveUser(r)

SpecDisconnect == Init /\ [][NextDisconnect]_vars

\* C22: once the client of a turn has disconnected, no further chunk of the
\* model stream is read for that turn, and the messages persisted in the
\* turn's chat stay as they are
C22_DisconnectStopsConsuming ==
    [][\A r \in Reqs :
          (reqs[r].disconnected /\ reqs'[r].disconnected) =>
              /\ reqs'[r].received = reqs[r].received
              /\ chats'[reqs[r].chatId].messages = chats[reqs[r].chatId].messages]_vars

-----------------------------------------------------------------------------
(* SpecTitle: one user creating, extending and clearing chats *)

NextTitle ==
    \/ \E m \in AppendMessages : nextChatId <= MaxLiveChats /\ SaveNewChat("u1", m)
    \/ \E c \in DOMAIN chats, m \in AppendMessages :
          Len(chats[c].messages) < MaxMsgs /\ SaveMessage("u1", c, m)
    \/ \E c \in DOMAIN chats : Clear("u1", c)

SpecTitle == Init /\ [][NextTitle]_vars

\* the title of every chat that holds a user message is the one derived from
\* its first user message
TitleFollowsFirstUserMessage(chs) ==
    \A c \in DOMAIN chs :
        FirstUserIndex(chs[c].messages) # 0 =>
            chs[c].title = generateTitle(chs[c].messages[FirstUserIndex(chs[c].messages)].content)

\* C23: a save without chatId creates exactly one chat, owned by the caller
\* and holding the one message; and after every save and clear, a chat that
\* holds a user message (no route sets a title explicitly) is titled by its
\* first user message
C23_TitleDerivedFromFirstUserMessage ==
    [][/\ DOMAIN chats' # DOMAIN chats =>
            /\ DOMAIN chats' = DOMAIN chats \cup {nextChatId}
            /\ chats'[nextChatId].user = "u1"
            /\ Len(chats'[nextChatId].messages) = 1
            /\ \A c \in DOMAIN chats : chats'[c] = chats[c]
       /\ TitleFollowsFirstUserMessage(chats')]_vars

-----------------------------------------------------------------------------
(* SpecFresh: u2 has neither a record nor a chat and reads its memory, while *)
(* u1 accumulates chats, facts, preferences and a summary                    *)

NextFresh ==
    \/ nextChatId <= MaxLiveChats /\ SaveNewChat("u1", UserMsg)
    \/ \E w \in Worlds(TriggerExtractions) :
          w.failAt = "none" /\ UpdateMemory("u1", w.failAt, w.sumOut, w.extOut)
    \/ \E c \in 0..nextChatId : GetMemory("u2", c)
    \/ Tick

SpecFresh == Init /\ [][NextFresh]_vars

\* what getUserMemory returns to every user without record and chats, for
\* every chat id a request can name
BrandNewUserGetsNothing(mems, chs, next, t) ==
    \A u \in Users, c \in 0..next :
        (u \notin DOMAIN mems /\ CountDocuments(chs, u) = 0) =>
            getUserMemory(mems, chs, u, c, t)
              = [personalFacts |-> << >>, preferences |-> EmptyMap,
                 relevantHistory |-> EmptyText]

\* C24: getUserMemory for a user without MemoryRecord and without chats
\* returns no facts, no preferences and the empty relevantHistory, and the
\* call (a step that is neither an update, a new chat nor a clock tick)
\* leaves every record and every chat as it was
C24_BrandNewUserReadsEmptyMemory ==
    [][/\ BrandNewUserGetsNothing(memories, chats, nextChatId, now)
       /\ BrandNewUserGetsNothing(memories', chats', nextChatId', now')
       /\ (lastCall' = NoCall /\ nextChatId' = nextChatId /\ now' = now) =>
              (memories' = memories /\ chats' = chats)]_vars

\* u2 is brand new while u1 has a chat, a stored fact, a preference and a summary
C24_Witness ==
    /\ "u2" \notin DOMAIN memories /\ CountDocuments(chats, "u2") = 0
    /\ "u1" \in DOMAIN memories
    /\ memories["u1"].personalFacts # << >>
    /\ DOMAIN memories["u1"].preferences # {}
    /\ memories["u1"].conversationSummary # EmptyText
    /\ CountDocuments(chats, "u1") > 0
    /\ lastCall = NoCall

-----------------------------------------------------------------------------
(* SpecSoft: extractions whose reply holds no bracketed structure, or one   *)
(* that does not parse, on a record that ages                               *)

SoftExtractions ==
    {ExtractOutcome("noStructure", << >>, EmptyMap),
     ExtractOutcome("parseError", << >>, EmptyMap),
     ExtractOutcome("ok", <<(<<"a">>)>>, [k \in {"k1"} |-> "v1"])}

NextSoft ==
    \/ nextChatId <= ExtractEvery /\ SaveNewChat("u1", UserMsg)
    \/ \E w \in Worlds(SoftExtractions) :
          w.failAt = "none" /\ UpdateMemory("u1", w.failAt, w.sumOut, w.extOut)
    \/ Tick

SpecSoft == Init /\ [][NextSoft]_vars

\* C25: an extraction whose reply holds no bracketed structure, or whose
\* located structure does not parse, leaves the collection of MemoryRecords
\* exactly as it is (facts, preferences, summary and lastUpdated)
C25_UnparsableExtractionChangesNothing ==
    \A u \in Users, kind \in {"noStructure", "parseError"} :
        extractFactsAndPreferences(memories, u, ExtractOutcome(kind, << >>, EmptyMap), now)
          = memories

-----------------------------------------------------------------------------
(* SpecWindow: stream turns of one user on a chat that grows past the       *)
(* history window; messages are saved between the turns                     *)

\* a world of updateUserMemory in which nothing rejects and both model calls fail
QuietWorld ==
    [failAt |-> "none", sumOut |-> [kind |-> "callFailed", text |-> EmptyText],
     extOut |-> ExtractOutcome("callFailed", << >>, EmptyMap)]

NextWindow ==
    \/ nextChatId = 1 /\ SaveNewChat("u1", UserMsg)
    \/ \E c \in DOMAIN chats :
          /\ \A r \in Reqs : reqs[r].pc \in Terminal
          /\ Len(chats[c].messages) <= MAX_HISTORY_FOR_PROMPT
          /\ SaveMessage("u1", c, IF Len(chats[c].messages) % 2 = 0 THEN UserMsg ELSE AsstMsg)
    \/ \E r \in StreamReqs, route \in Routes, c \in {NoChatId} \cup DOMAIN chats :
          StreamStart(r, route, "u1", c, "Buddha")
    \/ \E r \in StreamReqs : StreamGetMemory(r)
    \/ \E r \in StreamReqs : StreamFetchChat(r)
    \/ \E r \in StreamReqs : StreamKnowledge(r, <<"hi">>, <<1, 0>>)
    \/ \E r \in StreamReqs : StreamCreate(r)
    \/ \E r \in StreamReqs : StreamChunk(r, ChunkText(Len(reqs[r].received) + 1))
    \/ \E r \in StreamReqs : StreamEnd(r)
    \/ \E r \in StreamReqs : StreamMaintain(r, QuietWorld)
    \/ \E r \in StreamReqs : StreamFindUser(r)
    \/ \E r \in StreamReqs : StreamSaveUser(r)

SpecWindow == Init /\ [][NextWindow]_vars

\* the window getUserMemory composes from, as { role, content } messages
PromptWindow(u, c) ==
    LET window == CurrentChatMessages(chats, u, c)
    IN  [i \in 1..Len(window) |-> [role |-> window[i].role, content |-> window[i].content]]

\* C26: the non-system messages sent to the model for a turn are the last
\* min(10, n) messages of the turn's chat in stored order, followed by the
\* new user message: at most 11 of them
C26_PromptIsBoundedWindow ==
    \A r \in Reqs :
        reqs[r].pc \in {"create", "streaming"} =>
            /\ reqs[r].prompt
                  = Append(PromptWindow(reqs[r].user, reqs[r].chatId),
                           [role |-> "user", content |-> <<"hi">>])
            /\ Len(reqs[r].prompt) <= MAX_HISTORY_FOR_PROMPT + 1

-----------------------------------------------------------------------------
(* Order of persistence and maintenance within a turn (SpecStream) *)

\* chat c of user u holds the user message of a turn and, behind it, the reply
HoldsTurn(u, c, message, reply) ==
    /\ FindChat(chats, c, u)
    /\ \E i, j \in 1..Len(chats[c].messages) :
          /\ i < j
          /\ chats[c].messages[i].role = "user"
          /\ chats[c].messages[i].content = message
          /\ chats[c].messages[j].role = "assistant"
          /\ chats[c].messages[j].content = reply

\* C27: when updateUserMemory has run for a turn, the chat session of that
\* turn exists and holds the turn's user message and its assistant reply
C27_MaintenanceAfterReplyPersisted ==
    \A r \in Reqs :
        reqs[r].maintained =>
            HoldsTurn(reqs[r].user, reqs[r].chatId, <<"hi">>, reqs[r].fullReply)

-----------------------------------------------------------------------------
(* SpecRace: two POST /update-memory requests of one user in flight at once; *)
(* no database operation is made to fail from outside                        *)

NextRace ==
    \/ nextChatId <= MaxLiveChats /\ SaveNewChat("u1", UserMsg)
    \/ \E r \in Reqs : UpdateStart(r, "u1")
    \/ \E r \in Reqs : UpdateLookup(r)
    \/ \E r \in Reqs, w \in Worlds(TriggerExtractions) :
          w.failAt = "none" /\ UpdateRest(r, w)
    \/ Tick

SpecRace == Init /\ [][NextRace]_vars

\* C28: every user has at most one MemoryRecord (the collection is keyed by
\* the user, which the unique index enforces), and of two updateUserMemory
\* calls that both looked the record up before either saved, neither fails
C28_InterleavedUpdatesBothSucceed ==
    /\ DOMAIN memories \subseteq Users
    /\ \A r \in Reqs :
          reqs[r].route = "update" => reqs[r].pc # "failed"

-----------------------------------------------------------------------------
(* Extraction results and the record they are stored in (SpecTrigger) *)

\* C29: when the extraction fires in a call of updateUserMemory and the model
\* returns a fact and a preference, both are in the user's MemoryRecord when
\* the call returns, at every triggering count and also for a user without
\* a record before the call
C29_ExtractedItemsAreStored ==
    \A u \in Users, so \in SummaryOutcomes :
        LET ext == ExtractOutcome("ok", <<(<<"a">>)>>, [k \in {"k1"} |-> "v1"])
            r == updateUserMemory(memories, chats, u, "none", so, ext, now)
        IN  r.extractInvoked =>
                /\ u \in DOMAIN r.memories
                /\ <<"a">> \in Range(FactContents(r.memories, u))
                /\ "k1" \in DOMAIN r.memories[u].preferences
                /\ r.memories[u].preferences["k1"] = "v1"

-----------------------------------------------------------------------------
(* SpecLimit: two stream requests of one non-premium user within one day,  *)
(* in any interleaving, for a user far below the daily limit and for one   *)
(* who is one query below it                                               *)

InitLimit ==
    /\ InitRest
    /\ InitKnowledge
    /\ \E count \in {0, DailyQueryLimit - 1} : InitCounts(count)

NextLimit ==
    \/ \E r \in Reqs, route \in Routes :
          reqs[r].pc = "idle" /\ LimitedStart(r, route, "u1", NoChatId, "Buddha")
    \/ \E r \in Reqs : StreamGetMemory(r)
    \/ \E r \in Reqs : StreamFetchChat(r)
    \/ \E r \in Reqs : StreamKnowledge(r, <<"hi">>, <<1, 0>>)
    \/ \E r \in Reqs : StreamCreate(r)
    \/ \E r \in Reqs : StreamChunk(r, ChunkText(Len(reqs[r].received) + 1))
    \/ \E r \in Reqs : StreamEnd(r)
    \/ \E r \in Reqs : StreamMaintain(r, QuietWorld)
    \/ \E r \in Reqs : StreamFindUser(r)
    \/ \E r \in Reqs : StreamSaveUser(r)

SpecLimit == InitLimit /\ [][NextLimit]_vars

\* C30: within one day at most 50 streamed turns of a non-premium user
\* complete, and dailyQueryCount equals the number of turns completed since
\* the last reset, in every interleaving
C30_DailyLimitHoldsUnderConcurrency ==
    \A u \in Users :
        /\ completed[u] <= DailyQueryLimit
        /\ users[u] = completed[u]

====
